---- MODULE Spec2Model ----
(***************************************************************************)
(* Model of the five-stage feature-engineering pipeline                    *)
(* (src/src/*.py) and of its driver run_pipeline (src/main.py).            *)
(*                                                                         *)
(* A table (pandas DataFrame) is a record                                  *)
(*     [oid, index, cols]                                                  *)
(* oid is the identity of the Python object, index the row labels and cols *)
(* the ordered columns, each [name, dtype, vals].  A column name is the    *)
(* sequence of its parts between underscores: purchase_date_year is        *)
(* <<"purchase", "date", "year">>, so that the prefix, suffix and          *)
(* substring tests of the code can be computed.  A cell is a record        *)
(* [k, v, s]: k is the kind of value, v its number and s its text.         *)
(* Numbers are fixed-point with two decimals: v = value * 100.             *)
(***************************************************************************)
EXTENDS Integers, Sequences, FiniteSets, TLC

VARIABLES
    df,          \* table the caller holds (input, then result of the last call)
    before,      \* value of the argument of the last stage call, at call time
    arg,         \* value held by that argument object after the call returned
    last,        \* name of the last stage called ("none" before any call)
    raised,      \* exception raised by the last stage call ("none" if it returned)
    calls,       \* number of direct stage calls made so far
    now,         \* day number of pd.Timestamp.now() seen by the time stage
    pc,          \* position of run_pipeline
    executed,    \* stages completed by run_pipeline, in order
    received,    \* tables received by the stages of run_pipeline, in order
    returned,    \* tables returned by the stages of run_pipeline, in order
    written,     \* number of times the output file was written
    reported,    \* TRUE once the except handler printed the error
    exit_status  \* process exit status (-1 while running)

vars == <<df, before, arg, last, raised, calls, now, pc, executed, received,
          returned, written, reported, exit_status>>

----------------------------------------------------------------------------
(* Bounds of the model *)

MaxRows == 2
MaxCalls == 2

----------------------------------------------------------------------------
(* Cells *)

Num(n) == [k |-> "num", v |-> n, s |-> ""]
NaN == [k |-> "nan", v |-> 0, s |-> ""]
PosInf == [k |-> "inf", v |-> 1, s |-> ""]
NegInf == [k |-> "inf", v |-> -1, s |-> ""]
Str(x) == [k |-> "str", v |-> 0, s |-> x]
Bool(b) == [k |-> "bool", v |-> IF b THEN 1 ELSE 0, s |-> ""]
Ts(d) == [k |-> "ts", v |-> d, s |-> ""]
NaT == [k |-> "nat", v |-> 0, s |-> ""]

IsNum(c) == c.k = "num"
IsNA(c) == c.k \in {"nan", "nat"}

Abs(n) == IF n < 0 THEN -n ELSE n
Sign(n) == IF n < 0 THEN -1 ELSE IF n > 0 THEN 1 ELSE 0

\* floor of p / q for q > 0
FloorDiv(p, q) == p \div q

\* p / q rounded to the nearest integer, ties to the even one (numpy.round)
RoundHalfEven(p, q) ==
    LET pp == IF q < 0 THEN -p ELSE p
        qq == Abs(q)
        f == FloorDiv(pp, qq)
        r == pp - f * qq
    IN  IF 2 * r < qq THEN f
        ELSE IF 2 * r > qq THEN f + 1
        ELSE IF f % 2 = 0 THEN f ELSE f + 1

\* the greatest common divisor of two naturals
RECURSIVE Gcd(_, _)
Gcd(a, b) == IF b = 0 THEN a ELSE Gcd(b, a % b)

\* p * k / q rounded to the nearest integer, ties to the even one; the
\* fraction is reduced first, so that the product stays within the integers
RoundRatio(p, k, q) ==
    LET g1 == Gcd(Abs(p), Abs(q))
        p1 == IF g1 = 0 THEN p ELSE p \div g1
        q1 == IF g1 = 0 THEN q ELSE q \div g1
        g2 == Gcd(Abs(k), Abs(q1))
        k1 == IF g2 = 0 THEN k ELSE k \div g2
        q2 == IF g2 = 0 THEN q1 ELSE q1 \div g2
    IN  RoundHalfEven(p1 * k1, q2)

\* an infinity of the given sign, not-a-number for sign 0
InfOf(sg) == IF sg > 0 THEN PosInf ELSE IF sg < 0 THEN NegInf ELSE NaN

\* IEEE addition of two float cells
FAdd(a, b) ==
    IF a.k = "nan" \/ b.k = "nan" THEN NaN
    ELSE IF a.k = "inf" /\ b.k = "inf" THEN (IF a.v = b.v THEN a ELSE NaN)
    ELSE IF a.k = "inf" THEN a
    ELSE IF b.k = "inf" THEN b
    ELSE Num(a.v + b.v)

FNeg(a) == IF a.k = "nan" THEN NaN ELSE IF a.k = "inf" THEN InfOf(-a.v) ELSE Num(-a.v)

FSub(a, b) == FAdd(a, FNeg(b))

\* round(a * b * num / den, 2) for float cells, num and den positive integers;
\* a.v and b.v carry two decimals each
FMulRound(a, b, num, den) ==
    IF a.k = "nan" \/ b.k = "nan" THEN NaN
    ELSE IF a.k = "inf" \/ b.k = "inf"
         THEN InfOf(Sign(a.v) * Sign(b.v))
    ELSE Num(RoundRatio(a.v, b.v * num, 100 * den))

\* round(a / b * num / den, 2) for float cells; division by zero gives an
\* infinity of the sign of a, and not-a-number for 0 / 0
FDivRound(a, b, num, den) ==
    IF a.k = "nan" \/ b.k = "nan" THEN NaN
    ELSE IF a.k = "inf" /\ b.k = "inf" THEN NaN
    ELSE IF a.k = "inf" THEN InfOf(a.v * (IF b.v < 0 THEN -1 ELSE 1))
    ELSE IF b.k = "inf" THEN Num(0)
    ELSE IF b.v = 0 THEN InfOf(Sign(a.v))
    ELSE Num(RoundRatio(a.v, 100 * num, b.v * den))

\* a ** 2 for a cell with integral value
FSquare(a) ==
    IF a.k = "nan" THEN NaN
    ELSE IF a.k = "inf" THEN PosInf
    ELSE Num((a.v * a.v) \div 100)

\* Series.round(2): the cells already carry two decimals
FRound2(a) == a

----------------------------------------------------------------------------
(* Tables *)

Range(s) == {s[i] : i \in DOMAIN s}

Names(t) == [i \in DOMAIN t.cols |-> t.cols[i].name]

\* 'name' in df.columns
HasCol(t, name) == \E i \in DOMAIN t.cols : t.cols[i].name = name

PosOf(t, name) == CHOOSE i \in DOMAIN t.cols :
                      /\ t.cols[i].name = name
                      /\ \A j \in 1..(i - 1) : t.cols[j].name # name

\* df[name]
Col(t, name) == t.cols[PosOf(t, name)]

NRows(t) == Len(t.index)

Rows(t) == 1..NRows(t)

\* df[name] = values: replaces the column of that name where it stands,
\* appends a new column otherwise
SetCol(t, name, dtype, vals) ==
    LET c == [name |-> name, dtype |-> dtype, vals |-> vals]
    IN  IF HasCol(t, name)
        THEN [t EXCEPT !.cols = [i \in DOMAIN t.cols |->
                                    IF t.cols[i].name = name THEN c ELSE t.cols[i]]]
        ELSE [t EXCEPT !.cols = Append(t.cols, c)]

\* df_new = df instead of df.copy(): the same object under a second name
DataFrameAlias(t, fresh) == t

\* df.copy(): a new object holding the same data
DataFrameCopy(t, fresh) == [t EXCEPT !.oid = fresh]

\* elementwise binary operation of two columns
Zip(Op(_, _), a, b) == [i \in DOMAIN a.vals |-> Op(a.vals[i], b.vals[i])]

\* one statement after another: Op applied to the value v has once computed
Then(v, Op(_)) == CHOOSE r \in {Op(y) : y \in {v}} : TRUE

UniqueNames(t) ==
    \A i, j \in DOMAIN t.cols : t.cols[i].name = t.cols[j].name => i = j

----------------------------------------------------------------------------
(* Stage 1: derive_computed_columns *)

\* a stage returns its table, or raises
Returned(t) == [df |-> t, err |-> "none"]
Raised(t, e) == [df |-> t, err |-> e]

NoNA(vals) == \A i \in DOMAIN vals : vals[i].k # "nan"

\* dtype of a column computed from number cells
NumDtype(intlike, vals) == IF intlike /\ NoNA(vals) THEN "int64" ELSE "float64"

total_cost_of(t) ==
    Zip(FAdd, Col(t, <<"purchase", "amount">>), Col(t, <<"shipping", "cost">>))

DiscountOp(a, b) == FMulRound(a, b, 1, 100)

discount_amount_of(t) ==
    Zip(DiscountOp, Col(t, <<"purchase", "amount">>), Col(t, <<"discount", "percent">>))

\* total_cost + discount_amount: the discount added instead of taken off
FinalPriceOpAdded(a, b) == FRound2(FAdd(a, b))

\* (total_cost - discount_amount).round(2)
FinalPriceOp(a, b) == FRound2(FSub(a, b))

final_price_of(t) ==
    Zip(FinalPriceOp, Col(t, <<"total", "cost">>), Col(t, <<"discount", "amount">>))

PerRatingOp(a, b) == FDivRound(a, b, 1, 1)

price_per_rating_of(t) ==
    Zip(PerRatingOp, Col(t, <<"final", "price">>), Col(t, <<"rating">>))

RatioOp(a, b) == FDivRound(a, b, 100, 1)

income_purchase_ratio_of(t) ==
    Zip(RatioOp, Col(t, <<"purchase", "amount">>), Col(t, <<"income">>))

age_squared_of(t) == [i \in Rows(t) |-> FSquare(Col(t, <<"age">>).vals[i])]

SpendingOp(a, b) == FDivRound(a, b, 1, 1000)

spending_power_index_of(t) ==
    Zip(SpendingOp, Col(t, <<"income">>), Col(t, <<"age">>))

add_total_cost(d) ==
    IF HasCol(d, <<"purchase", "amount">>) /\ HasCol(d, <<"shipping", "cost">>)
    THEN SetCol(d, <<"total", "cost">>, "float64", total_cost_of(d))
    ELSE d

add_discount_amount(d) ==
    IF HasCol(d, <<"purchase", "amount">>) /\ HasCol(d, <<"discount", "percent">>)
    THEN SetCol(d, <<"discount", "amount">>, "float64", discount_amount_of(d))
    ELSE d

add_final_price(d) ==
    IF HasCol(d, <<"total", "cost">>) /\ HasCol(d, <<"discount", "amount">>)
    THEN SetCol(d, <<"final", "price">>, "float64", final_price_of(d))
    ELSE d

add_price_per_rating(d) ==
    IF HasCol(d, <<"final", "price">>) /\ HasCol(d, <<"rating">>)
    THEN SetCol(d, <<"price", "per", "rating">>, "float64", price_per_rating_of(d))
    ELSE d

add_income_purchase_ratio(d) ==
    IF HasCol(d, <<"income">>) /\ HasCol(d, <<"purchase", "amount">>)
    THEN SetCol(d, <<"income", "purchase", "ratio">>, "float64",
                income_purchase_ratio_of(d))
    ELSE d

add_age_squared(d) ==
    IF HasCol(d, <<"age">>)
    THEN SetCol(d, <<"age", "squared">>, Col(d, <<"age">>).dtype, age_squared_of(d))
    ELSE d

add_spending_power_index(d) ==
    IF HasCol(d, <<"income">>) /\ HasCol(d, <<"age">>)
    THEN SetCol(d, <<"spending", "power", "index">>, "float64",
                spending_power_index_of(d))
    ELSE d

derive_computed_columns(t, fresh) ==
    LET d0 == DataFrameCopy(t, fresh)
        d1 == Then(d0, add_total_cost)
        d2 == Then(d1, add_discount_amount)
        d3 == Then(d2, add_final_price)
        d4 == Then(d3, add_price_per_rating)
        d5 == Then(d4, add_income_purchase_ratio)
        d6 == Then(d5, add_age_squared)
        d7 == Then(d6, add_spending_power_index)
    IN  Returned(d7)

----------------------------------------------------------------------------
(* Stage 2: encode_categorical_features *)

\* a number with four decimals: v = value * 10000 (Series.round(4))
Num4(n) == [k |-> "num4", v |-> n, s |-> ""]

\* text that pd.to_datetime parses as a date, with its calendar date
DateOf ==
    [x \in {"2024-01-15", "2024-06-20", "2024-03-10", "2023-12-01", "2024-11-25",
            "2024-11-23"} |->
        CASE x = "2024-01-15" -> [y |-> 2024, m |-> 1, d |-> 15]
          [] x = "2024-06-20" -> [y |-> 2024, m |-> 6, d |-> 20]
          [] x = "2024-03-10" -> [y |-> 2024, m |-> 3, d |-> 10]
          [] x = "2023-12-01" -> [y |-> 2023, m |-> 12, d |-> 1]
          [] x = "2024-11-25" -> [y |-> 2024, m |-> 11, d |-> 25]
          [] x = "2024-11-23" -> [y |-> 2024, m |-> 11, d |-> 23]]

MonthNames == <<"January", "February", "March", "April", "May", "June", "July",
                "August", "September", "October", "November", "December">>

DayNames == <<"Monday", "Tuesday", "Wednesday", "Thursday", "Friday", "Saturday",
              "Sunday">>

\* month and day names: whether the date parser accepts a bare one depends on
\* the installed parser, so it is an input of the stages (lenient)
CalendarWords == Range(MonthNames) \cup Range(DayNames)

NonNA(vals) == {i \in DOMAIN vals : ~IsNA(vals[i])}

\* pd.to_datetime(df[col]) does not raise
ParsesAsDatetime(c, lenient) ==
    CASE c.dtype = "datetime64" -> TRUE
      [] c.dtype = "object" ->
            \/ \A i \in NonNA(c.vals) :
                   c.vals[i].k = "str" /\ c.vals[i].s \in DOMAIN DateOf
            \/ /\ lenient
               /\ \A i \in NonNA(c.vals) :
                      c.vals[i].k = "str" /\ c.vals[i].s \in CalendarWords
      [] c.dtype \in {"int64", "float64"} ->
            \A i \in DOMAIN c.vals : c.vals[i].k # "inf"
      [] OTHER -> FALSE

\* df.select_dtypes(include=['object']) less the datetime-parseable columns,
\* as positions in table order
categorical_cols(t, lenient) ==
    SelectSeq([i \in DOMAIN t.cols |-> i],
              LAMBDA i : /\ t.cols[i].dtype = "object"
                         /\ ~ParsesAsDatetime(t.cols[i], lenient))

\* the list with Master and Bachelor exchanged
order_swapped == <<"High School", "Master", "Bachelor", "PhD">>

\* order = ['High School', 'Bachelor', 'Master', 'PhD']
order == <<"High School", "Bachelor", "Master", "PhD">>

\* {v: i for i, v in enumerate(order)}
IndexIn(seq, x) == CHOOSE i \in DOMAIN seq : seq[i] = x

\* df[col].map({v: i ...}): values outside the mapping become NaN
MapOrder(c) ==
    IF c.k = "str" /\ c.s \in Range(order)
    THEN Num(100 * (IndexIn(order, c.s) - 1))
    ELSE NaN

education_encoded_of(t) ==
    [i \in Rows(t) |-> MapOrder(Col(t, <<"education">>).vals[i])]

ordinal_pass(t) ==
    IF HasCol(t, <<"education">>)
    THEN SetCol(t, <<"education", "encoded">>,
                NumDtype(TRUE, education_encoded_of(t)), education_encoded_of(t))
    ELSE t

\* the texts of the nominal columns, in Python's string order
TextOrder == <<"Books", "Clothing", "Electronics", "Female", "Food", "Home", "Male",
               "Other">>

\* sorted distinct non-null values of a column
Categories(c) ==
    SelectSeq(TextOrder,
              LAMBDA x : \E i \in DOMAIN c.vals : c.vals[i].k = "str" /\ c.vals[i].s = x)

\* pd.get_dummies(df[col], prefix=col): one indicator column per category
get_dummies(c) ==
    LET cats == Categories(c)
    IN  [j \in DOMAIN cats |->
            [name |-> Append(c.name, cats[j]),
             dtype |-> "bool",
             vals |-> [i \in DOMAIN c.vals |->
                          Bool(c.vals[i].k = "str" /\ c.vals[i].s = cats[j])]]]

\* pd.concat([df, dummies]) without axis=1: the rows of both, one under the other
concat_rows(t, dummies) ==
    [t EXCEPT !.index = t.index \o t.index,
              !.cols = [i \in DOMAIN t.cols |->
                           [t.cols[i] EXCEPT !.vals = t.cols[i].vals \o t.cols[i].vals]]]

\* pd.concat([df, dummies], axis=1): the columns of both, whatever their names
concat_columns(t, dummies) == [t EXCEPT !.cols = t.cols \o dummies]

nominal_pass_one(t, col) ==
    IF HasCol(t, col) THEN concat_columns(t, get_dummies(Col(t, col))) ELSE t

nominal_pass(t) ==
    Then(Then(t, LAMBDA d : nominal_pass_one(d, <<"gender">>)),
         LAMBDA d : nominal_pass_one(d, <<"product", "category">>))

\* df[col].value_counts(normalize=True) mapped back on the column, rounded to
\* four decimals: the share of the non-null rows holding the row's value
freq_of(c) ==
    LET n == Cardinality(NonNA(c.vals))
        count(x) == Cardinality({i \in NonNA(c.vals) : c.vals[i] = x})
    IN  [i \in DOMAIN c.vals |->
            IF IsNA(c.vals[i]) THEN NaN
            ELSE Num4(RoundHalfEven(10000 * count(c.vals[i]), n))]

freq_one(t, col) ==
    IF col \notin {<<"education">>, <<"gender">>, <<"product", "category">>}
       /\ HasCol(t, col)
    THEN SetCol(t, Append(col, "freq"), "float64", freq_of(Col(t, col)))
    ELSE t

RECURSIVE freq_pass(_, _)
freq_pass(t, cats) ==
    IF cats = <<>> THEN t
    ELSE Then(freq_one(t, cats[1]), LAMBDA d : freq_pass(d, Tail(cats)))

encode_categorical_features(t, fresh, lenient) ==
    LET d0 == DataFrameCopy(t, fresh)
        d1 == Then(d0, ordinal_pass)
        d2 == Then(d1, nominal_pass)
        d3 == Then(d2, LAMBDA d : freq_pass(d, [j \in DOMAIN categorical_cols(t, lenient) |->
                                         t.cols[categorical_cols(t, lenient)[j]].name]))
    IN  Returned(d3)

----------------------------------------------------------------------------
(* Stage 3: bin_numeric_ranges *)

\* a < b on float cells (false when either is not-a-number)
FLt(a, b) ==
    IF a.k = "nan" \/ b.k = "nan" THEN FALSE
    ELSE IF a.k = "inf" THEN a.v = -1 /\ ~(b.k = "inf" /\ b.v = -1)
    ELSE IF b.k = "inf" THEN b.v = 1
    ELSE a.v < b.v

\* bin edges written in units
Edges(units) == [i \in DOMAIN units |-> Num(100 * units[i])]

\* bins.searchsorted(x, side='left'): the number of edges below x
SearchSortedLeft(bins, x) == Cardinality({i \in DOMAIN bins : FLt(bins[i], x)})

\* the label pd.cut(x, bins, labels, include_lowest) gives a cell:
\* label i when bins[i] < x <= bins[i+1], missing outside the edges
CutCell(x, bins, labels, include_lowest) ==
    LET found == SearchSortedLeft(bins, x)
        ids == IF include_lowest /\ x = bins[1] THEN 1 ELSE found
    IN  IF x.k = "nan" \/ ids = 0 \/ ids = Len(bins) THEN NaN ELSE Str(labels[ids])

cut(c, bins, labels, include_lowest) ==
    [i \in DOMAIN c.vals |-> CutCell(c.vals[i], bins, labels, include_lowest)]

age_bins == Edges(<<0, 25, 35, 50, 65, 100>>)
age_labels == <<"18-25", "26-35", "36-50", "51-65", "65+">>

income_bins == Append(Edges(<<0, 30000, 50000, 75000, 100000>>), PosInf)
income_labels == <<"Low", "Lower-Middle", "Middle", "Upper-Middle", "High">>

purchase_bins == Append(Edges(<<0, 100, 500, 1000, 2000>>), PosInf)
purchase_labels == <<"Very Low", "Low", "Medium", "High", "Very High">>

rating_bins == Edges(<<0, 2, 3, 4, 5>>)
rating_labels == <<"Poor", "Fair", "Good", "Excellent">>

discount_bins == Edges(<<0, 10, 25, 40, 100>>)
discount_labels == <<"No Discount", "Low Discount", "Medium Discount", "High Discount">>

\* the numbers of a column, sorted (missing values dropped)
NumsOf(c) ==
    LET idx == SelectSeq([i \in DOMAIN c.vals |-> i], LAMBDA i : c.vals[i].k = "num")
    IN  SortSeq([j \in DOMAIN idx |-> c.vals[idx[j]].v], LAMBDA a, b : a < b)

\* four times the q/4 quantile of the sorted numbers xs, interpolated linearly
\* between the two nearest ranks (Series.quantile)
Quantile4(xs, q) ==
    LET n == Len(xs)
        pos4 == q * (n - 1)
        lo == pos4 \div 4
        r == pos4 % 4
    IN  IF r = 0 THEN 4 * xs[lo + 1]
        ELSE 4 * xs[lo + 1] + r * (xs[lo + 2] - xs[lo + 1])

quartile_edges(c) == [q \in 1..5 |-> Quantile4(NumsOf(c), q - 1)]

quartile_labels == <<"Q1", "Q2", "Q3", "Q4">>

\* pd.qcut(..., labels=[Q1..Q4], duplicates='drop') raises when the edges left
\* after dropping duplicates are not one more than the labels
qcut_raises(c) ==
    \/ NumsOf(c) = <<>>
    \/ Cardinality(Range(quartile_edges(c))) # Len(quartile_labels) + 1

qcut(c) ==
    LET e == quartile_edges(c)
    IN  [i \in DOMAIN c.vals |->
            IF c.vals[i].k # "num" THEN NaN
            ELSE LET x4 == 4 * c.vals[i].v
                     found == Cardinality({j \in DOMAIN e : e[j] < x4})
                     ids == IF x4 = e[1] THEN 1 ELSE found
                 IN  Str(quartile_labels[ids])]

\* an interval of an equal-width binning, named by its position
Interval(code) == [k |-> "interval", v |-> code, s |-> ""]

ratio_bins == 5

\* pd.cut(x, bins=5) raises on an infinite value and on a column without numbers
cut_equal_width_raises(c) ==
    \/ \E i \in DOMAIN c.vals : c.vals[i].k = "inf"
    \/ NumsOf(c) = <<>>

cut_equal_width(c) ==
    LET xs == NumsOf(c)
        mn == xs[1]
        mx == xs[Len(xs)]
    IN  [i \in DOMAIN c.vals |->
            IF c.vals[i].k # "num" THEN NaN
            ELSE IF mn = mx THEN Interval(ratio_bins \div 2)
            ELSE LET x == c.vals[i].v
                     found == Cardinality({j \in 0..ratio_bins :
                                  j = 0 \/ ratio_bins * mn + j * (mx - mn) < ratio_bins * x})
                 IN  Interval(found - 1)]

add_age_group(d) ==
    IF HasCol(d, <<"age">>)
    THEN SetCol(d, <<"age", "group">>, "category",
                cut(Col(d, <<"age">>), age_bins, age_labels, TRUE))
    ELSE d

add_income_bracket(d) ==
    IF HasCol(d, <<"income">>)
    THEN SetCol(d, <<"income", "bracket">>, "category",
                cut(Col(d, <<"income">>), income_bins, income_labels, FALSE))
    ELSE d

add_purchase_category(d) ==
    IF HasCol(d, <<"purchase", "amount">>)
    THEN SetCol(d, <<"purchase", "category">>, "category",
                cut(Col(d, <<"purchase", "amount">>), purchase_bins, purchase_labels,
                    FALSE))
    ELSE d

add_rating_category(d) ==
    IF HasCol(d, <<"rating">>)
    THEN SetCol(d, <<"rating", "category">>, "category",
                cut(Col(d, <<"rating">>), rating_bins, rating_labels, TRUE))
    ELSE d

add_discount_tier(d) ==
    IF HasCol(d, <<"discount", "percent">>)
    THEN SetCol(d, <<"discount", "tier">>, "category",
                cut(Col(d, <<"discount", "percent">>), discount_bins, discount_labels,
                    TRUE))
    ELSE d

\* the last two steps may raise: they take and give a stage result
add_price_quartile(r) ==
    IF r.err # "none" \/ ~HasCol(r.df, <<"final", "price">>) THEN r
    ELSE IF qcut_raises(Col(r.df, <<"final", "price">>)) THEN Raised(r.df, "ValueError")
    ELSE Returned(SetCol(r.df, <<"price", "quartile">>, "category",
                         qcut(Col(r.df, <<"final", "price">>))))

add_spending_ratio_bin(r) ==
    IF r.err # "none" \/ ~HasCol(r.df, <<"income", "purchase", "ratio">>) THEN r
    ELSE IF cut_equal_width_raises(Col(r.df, <<"income", "purchase", "ratio">>))
         THEN Raised(r.df, "ValueError")
    ELSE Returned(SetCol(r.df, <<"spending", "ratio", "bin">>, "category",
                         cut_equal_width(Col(r.df, <<"income", "purchase", "ratio">>))))

\* an exception leaves the caller with the table it passed
Outcome(t, r) == IF r.err = "none" THEN r ELSE Raised(t, r.err)

bin_numeric_ranges(t, fresh) ==
    LET d0 == DataFrameCopy(t, fresh)
        d1 == Then(d0, add_age_group)
        d2 == Then(d1, add_income_bracket)
        d3 == Then(d2, add_purchase_category)
        d4 == Then(d3, add_rating_category)
        d5 == Then(d4, add_discount_tier)
        r6 == Then(Returned(d5), add_price_quartile)
        r7 == Then(r6, add_spending_ratio_bin)
    IN  Then(r7, LAMBDA r : Outcome(t, r))

----------------------------------------------------------------------------
(* Stage 4: time_based_feature_extraction *)

\* days from 1970-01-01 to the civil date y-m-d (proleptic Gregorian calendar)
DaysFromCivil(y, m, d) ==
    LET yy == IF m <= 2 THEN y - 1 ELSE y
        era == yy \div 400
        yoe == yy - era * 400
        mp == IF m > 2 THEN m - 3 ELSE m + 9
        doy == (153 * mp + 2) \div 5 + d - 1
        doe == yoe * 365 + yoe \div 4 - yoe \div 100 + doy
    IN  era * 146097 + doe - 719468

\* the civil date of a day number
CivilFromDays(days) ==
    LET z == days + 719468
        era == z \div 146097
        doe == z - era * 146097
        yoe == (doe - doe \div 1460 + doe \div 36524 - doe \div 146096) \div 365
        doy == doe - (365 * yoe + yoe \div 4 - yoe \div 100)
        mp == (5 * doy + 2) \div 153
        d == doy - (153 * mp + 2) \div 5 + 1
        m == IF mp < 10 THEN mp + 3 ELSE mp - 9
        y == yoe + era * 400 + (IF m <= 2 THEN 1 ELSE 0)
    IN  [y |-> y, m |-> m, d |-> d]

IsLeap(y) == (y % 4 = 0 /\ y % 100 # 0) \/ y % 400 = 0

DaysInMonth(y, m) ==
    IF m = 2 THEN (IF IsLeap(y) THEN 29 ELSE 28)
    ELSE IF m \in {4, 6, 9, 11} THEN 30 ELSE 31

\* Monday = 0 ... Sunday = 6; 1970-01-01 was a Thursday
DayOfWeek(days) == (days + 3) % 7

\* ISO 8601 week number of a day
IsoWeek(days) ==
    LET c == CivilFromDays(days)
        jan1(y) == DaysFromCivil(y, 1, 1)
        doy == days - jan1(c.y) + 1
        w == (doy - (DayOfWeek(days) + 1) + 10) \div 7
        long(y) == \/ DayOfWeek(jan1(y)) = 3
                   \/ IsLeap(y) /\ DayOfWeek(jan1(y)) = 2
    IN  IF w < 1 THEN (IF long(c.y - 1) THEN 53 ELSE 52)
        ELSE IF w = 53 /\ ~long(c.y) THEN 1
        ELSE w

\* the column name contains 'date' or 'time' once lower-cased: the parts of the
\* names of the model that do
DateTimeParts == {"date", "time"}

IsDateTimeName(name) == \E i \in DOMAIN name : name[i] \in DateTimeParts

\* pd.to_datetime(df[col]) on a column it parses; a number is read as
\* nanoseconds since the epoch
ToDatetimeCell(c) ==
    CASE c.k \in {"ts", "nat"} -> c
      [] c.k = "nan" -> NaT
      [] c.k = "str" /\ c.s \in DOMAIN DateOf ->
            Ts(DaysFromCivil(DateOf[c.s].y, DateOf[c.s].m, DateOf[c.s].d))
      [] c.k \in {"num", "num4"} -> Ts(IF c.v < 0 THEN -1 ELSE 0)
      [] OTHER -> NaT

to_datetime(c) ==
    [c EXCEPT !.dtype = "datetime64",
              !.vals = [i \in DOMAIN c.vals |-> ToDatetimeCell(c.vals[i])]]

\* the first loop: the date/time-named columns that parse, in table order
datetime_cols(t, lenient) ==
    LET pos == SelectSeq([i \in DOMAIN t.cols |-> i],
                   LAMBDA i : /\ IsDateTimeName(t.cols[i].name)
                              /\ ParsesAsDatetime(t.cols[i], lenient))
    IN  [j \in DOMAIN pos |-> t.cols[pos[j]].name]

\* ... and df_new after it: each of them holds its parsed values
parse_datetime_cols(t, lenient) ==
    [t EXCEPT !.cols = [i \in DOMAIN t.cols |->
        IF IsDateTimeName(t.cols[i].name) /\ ParsesAsDatetime(t.cols[i], lenient)
        THEN to_datetime(t.cols[i])
        ELSE t.cols[i]]]

\* a feature of a timestamp cell, missing for NaT
TsNum(c, f(_)) == IF c.k = "ts" THEN Num(100 * f(c.v)) ELSE NaN
TsStr(c, f(_)) == IF c.k = "ts" THEN Str(f(c.v)) ELSE NaN
TsFlag(c, f(_)) == IF c.k = "ts" /\ f(c.v) THEN Num(100) ELSE Num(0)

SeasonOfMonth(x) ==
    IF x \in {12, 1, 2} THEN "Winter"
    ELSE IF x \in {3, 4, 5} THEN "Spring"
    ELSE IF x \in {6, 7, 8} THEN "Summer"
    ELSE "Fall"

\* month.apply(lambda x: ...): a missing month is in none of the lists
SeasonCell(c) == IF c.k = "ts" THEN Str(SeasonOfMonth(CivilFromDays(c.v).m)) ELSE Str("Fall")

recent_days == 30

\* isin([0, 6]): the weekend of a week that starts on Sunday
IsWeekendDaySundayFirst(d) == DayOfWeek(d) \in {0, 6}

\* .dt.dayofweek.isin([5, 6])
IsWeekendDay(d) == DayOfWeek(d) \in {5, 6}

\* the 15 columns derived from the datetime column col, in the order of the code
time_features(t, col, today) ==
    LET c == Col(t, col)
        F(f(_)) == [i \in DOMAIN c.vals |-> f(c.vals[i])]
        year(x) == TsNum(x, LAMBDA d : CivilFromDays(d).y)
        month(x) == TsNum(x, LAMBDA d : CivilFromDays(d).m)
        month_name(x) == TsStr(x, LAMBDA d : MonthNames[CivilFromDays(d).m])
        day(x) == TsNum(x, LAMBDA d : CivilFromDays(d).d)
        day_of_week(x) == TsNum(x, DayOfWeek)
        day_name(x) == TsStr(x, LAMBDA d : DayNames[DayOfWeek(d) + 1])
        quarter(x) == TsNum(x, LAMBDA d : (CivilFromDays(d).m - 1) \div 3 + 1)
        week_of_year(x) == TsNum(x, IsoWeek)
        is_weekend(x) == TsFlag(x, IsWeekendDay)
        is_month_start(x) == TsFlag(x, LAMBDA d : CivilFromDays(d).d = 1)
        is_month_end(x) ==
            TsFlag(x, LAMBDA d : CivilFromDays(d).d
                                   = DaysInMonth(CivilFromDays(d).y, CivilFromDays(d).m))
        days_since_epoch(x) == TsNum(x, LAMBDA d : d)
        days_from_today(x) == TsNum(x, LAMBDA d : today - d)
        is_recent(x) == IF days_from_today(x).k = "num"
                           /\ days_from_today(x).v <= 100 * recent_days
                        THEN Num(100) ELSE Num(0)
        num(vals) == NumDtype(TRUE, vals)
    IN  << [name |-> Append(col, "year"), dtype |-> num(F(year)), vals |-> F(year)],
           [name |-> Append(col, "month"), dtype |-> num(F(month)), vals |-> F(month)],
           [name |-> col \o <<"month", "name">>, dtype |-> "object", vals |-> F(month_name)],
           [name |-> Append(col, "day"), dtype |-> num(F(day)), vals |-> F(day)],
           [name |-> col \o <<"day", "of", "week">>, dtype |-> num(F(day_of_week)),
            vals |-> F(day_of_week)],
           [name |-> col \o <<"day", "name">>, dtype |-> "object", vals |-> F(day_name)],
           [name |-> Append(col, "quarter"), dtype |-> num(F(quarter)), vals |-> F(quarter)],
           [name |-> col \o <<"week", "of", "year">>, dtype |-> "UInt32",
            vals |-> F(week_of_year)],
           [name |-> col \o <<"is", "weekend">>, dtype |-> "int64", vals |-> F(is_weekend)],
           [name |-> col \o <<"is", "month", "start">>, dtype |-> "int64",
            vals |-> F(is_month_start)],
           [name |-> col \o <<"is", "month", "end">>, dtype |-> "int64",
            vals |-> F(is_month_end)],
           [name |-> col \o <<"days", "since", "epoch">>, dtype |-> num(F(days_since_epoch)),
            vals |-> F(days_since_epoch)],
           [name |-> Append(col, "season"), dtype |-> "object",
            vals |-> [i \in DOMAIN c.vals |-> SeasonCell(c.vals[i])]],
           [name |-> col \o <<"days", "from", "today">>, dtype |-> num(F(days_from_today)),
            vals |-> F(days_from_today)],
           [name |-> col \o <<"is", "recent">>, dtype |-> "int64", vals |-> F(is_recent)] >>

\* df_new[name] = values for each of a sequence of columns, in order
RECURSIVE SetCols(_, _)
SetCols(t, cs) ==
    IF cs = <<>> THEN t
    ELSE Then(SetCol(t, cs[1].name, cs[1].dtype, cs[1].vals),
              LAMBDA d : SetCols(d, Tail(cs)))

extract_one(t, col, today) ==
    Then(time_features(t, col, today), LAMBDA cs : SetCols(t, cs))

RECURSIVE extract_all(_, _, _)
extract_all(t, cols, today) ==
    IF cols = <<>> THEN t
    ELSE Then(extract_one(t, cols[1], today),
              LAMBDA d : extract_all(d, Tail(cols), today))

time_based_feature_extraction(t, fresh, lenient, today) ==
    LET d0 == DataFrameCopy(t, fresh)
        d1 == Then(d0, LAMBDA d : parse_datetime_cols(d, lenient))
        d2 == Then(d1, LAMBDA d : extract_all(d, datetime_cols(t, lenient), today))
    IN  Returned(d2)

----------------------------------------------------------------------------
(* Stage 5: flag_anomalies_column *)

\* Natural numbers beyond the machine word, as little-endian digits in base
\* 1000, to square the deviations exactly
BigOf(n) ==
    LET RECURSIVE digits(_)
        digits(m) == IF m = 0 THEN <<>> ELSE <<m % 1000>> \o digits(m \div 1000)
    IN  digits(n)

BigAdd(a, b) ==
    LET at(x, i) == IF i <= Len(x) THEN x[i] ELSE 0
        RECURSIVE go(_, _)
        go(i, carry) ==
            IF i > Len(a) /\ i > Len(b)
            THEN (IF carry = 0 THEN <<>> ELSE <<carry>>)
            ELSE LET sum == at(a, i) + at(b, i) + carry
                 IN  <<sum % 1000>> \o go(i + 1, sum \div 1000)
    IN  go(1, 0)

\* a * k for a small factor k
BigScale(a, k) ==
    LET RECURSIVE go(_, _)
        go(i, carry) ==
            IF i > Len(a) THEN BigOf(carry)
            ELSE LET p == a[i] * k + carry
                 IN  <<p % 1000>> \o go(i + 1, p \div 1000)
    IN  IF k = 0 \/ a = <<>> THEN <<>> ELSE go(1, 0)

BigMul(a, b) ==
    LET RECURSIVE go(_)
        go(i) ==
            IF i > Len(a) THEN <<>>
            ELSE BigAdd([j \in 1..(i - 1) |-> 0] \o BigScale(b, a[i]), go(i + 1))
        RECURSIVE strip(_)
        strip(x) == IF x # <<>> /\ x[Len(x)] = 0 THEN strip(SubSeq(x, 1, Len(x) - 1)) ELSE x
    IN  strip(go(1))

BigGt(a, b) ==
    LET RECURSIVE go(_)
        go(i) == IF i = 0 THEN FALSE
                 ELSE IF a[i] # b[i] THEN a[i] > b[i]
                 ELSE go(i - 1)
    IN  IF Len(a) # Len(b) THEN Len(a) > Len(b) ELSE go(Len(a))

RECURSIVE SumSeq(_)
SumSeq(xs) == IF xs = <<>> THEN 0 ELSE xs[1] + SumSeq(Tail(xs))

RECURSIVE BigSum(_)
BigSum(xs) == IF xs = <<>> THEN <<>> ELSE BigAdd(xs[1], BigSum(Tail(xs)))

zscore_threshold == 3

\* the test against the threshold itself instead of its square
flag_anomalies_zscore_unsquared(c, above) ==
    LET idx == SelectSeq([i \in DOMAIN c.vals |-> i], LAMBDA i : c.vals[i].k # "nan")
        n == Len(idx)
        finite == \A j \in DOMAIN idx : c.vals[idx[j]].k \in {"num", "num4"}
        S == SumSeq([j \in DOMAIN idx |-> c.vals[idx[j]].v])
        D(i) == Abs(n * c.vals[i].v - S)
        sq(i) == BigMul(BigOf(D(i)), BigOf(D(i)))
        total == BigSum([j \in DOMAIN idx |-> sq(idx[j])])
    IN  [i \in DOMAIN c.vals |->
            IF c.vals[i].k # "nan" /\ finite
               /\ BigGt(BigScale(sq(i), n), BigScale(total, zscore_threshold))
            THEN Num(100) ELSE Num(0)]

\* flag_anomalies_zscore: |x - mean| / std > threshold over the non-missing
\* values, std the population standard deviation.  With n values of sum S and
\* D = n*x - S the test is n * D^2 > threshold^2 * sum of all D^2; an infinite
\* value or a zero deviation makes every score not-a-number, which is not > 3.
\* A score that is exactly the threshold in real numbers is computed in
\* floating point just below or just above it, depending on the values
\* (nine 0 and one 1 give 2.9999999999999996, nine 21 and one 70 give
\* 3.0000000000000004): above tells which
flag_anomalies_zscore(c, above) ==
    LET idx == SelectSeq([i \in DOMAIN c.vals |-> i], LAMBDA i : c.vals[i].k # "nan")
        n == Len(idx)
        finite == \A j \in DOMAIN idx : c.vals[idx[j]].k \in {"num", "num4"}
        S == SumSeq([j \in DOMAIN idx |-> c.vals[idx[j]].v])
        D(i) == Abs(n * c.vals[i].v - S)
        sq(i) == BigMul(BigOf(D(i)), BigOf(D(i)))
        total == BigSum([j \in DOMAIN idx |-> sq(idx[j])])
    IN  [i \in DOMAIN c.vals |->
            IF c.vals[i].k # "nan" /\ finite
               /\ \E lhs \in {BigScale(sq(i), n)} :
                      \E rhs \in {BigScale(total, zscore_threshold * zscore_threshold)} :
                          \/ BigGt(lhs, rhs)
                          \/ above /\ n > 1 /\ BigGt(lhs, BigOf(0)) /\ ~BigGt(rhs, lhs)
            THEN Num(100) ELSE Num(0)]

\* k * a for a float cell and a positive integer k
FScale(a, k) == IF a.k \in {"num", "num4"} THEN Num(k * a.v) ELSE a

\* four times the q/4 quantile of a column: numpy's linear interpolation
\* a + (b - a) * t between the two nearest ranks, under IEEE arithmetic
QuantileCell4(c, q) ==
    LET idx == SelectSeq([i \in DOMAIN c.vals |-> i], LAMBDA i : c.vals[i].k # "nan")
        xs == SortSeq([j \in DOMAIN idx |-> FScale(c.vals[idx[j]], 1)], FLt)
        n == Len(xs)
        pos4 == q * (n - 1)
        lo == pos4 \div 4
        r == pos4 % 4
        a == xs[lo + 1]
        b == xs[IF lo + 2 <= n THEN lo + 2 ELSE n]
        diff == FSub(b, a)
        part == IF diff.k = "num" THEN Num(r * diff.v)
                ELSE IF r = 0 THEN NaN ELSE diff
    IN  IF n = 0 THEN NaN ELSE FAdd(FScale(a, 4), part)

iqr_multiplier_x2 == 3

\* flag_anomalies_iqr: x < Q1 - 1.5 * IQR or x > Q3 + 1.5 * IQR, compared in
\* eighths
\* the test with the lower fence only
flag_anomalies_iqr_lower(c) ==
    LET Q1 == QuantileCell4(c, 1)
        Q3 == QuantileCell4(c, 3)
        IQR == FSub(Q3, Q1)
        lower_bound == FSub(FScale(Q1, 2), FScale(IQR, iqr_multiplier_x2))
    IN  [i \in DOMAIN c.vals |->
            LET x == FScale(c.vals[i], 8)
            IN  IF FLt(x, lower_bound) THEN Num(100) ELSE Num(0)]

flag_anomalies_iqr(c) ==
    LET Q1 == QuantileCell4(c, 1)
        Q3 == QuantileCell4(c, 3)
        IQR == FSub(Q3, Q1)
        lower_bound == FSub(FScale(Q1, 2), FScale(IQR, iqr_multiplier_x2))
        upper_bound == FAdd(FScale(Q3, 2), FScale(IQR, iqr_multiplier_x2))
    IN  [i \in DOMAIN c.vals |->
            LET x == FScale(c.vals[i], 8)
            IN  IF FLt(x, lower_bound) \/ FLt(upper_bound, x) THEN Num(100) ELSE Num(0)]

\* the combined flag set only where both tests fired
BothFlags(a, b) == IF a = Num(100) /\ b = Num(100) THEN Num(100) ELSE Num(0)

EitherFlag(a, b) == IF a = Num(100) \/ b = Num(100) THEN Num(100) ELSE Num(0)

\* the parts of the names of the model that contain 'id' once lower-cased
IdParts == {"id"}

HasIdPart(name) == \E i \in DOMAIN name : name[i] \in IdParts

EndsWith(name, suffix) ==
    /\ Len(name) > Len(suffix)
    /\ SubSeq(name, Len(name) - Len(suffix) + 1, Len(name)) = suffix

StartsWith(name, prefix) ==
    /\ Len(name) > Len(prefix)
    /\ SubSeq(name, 1, Len(prefix)) = prefix

\* df.select_dtypes(include=[np.number]) less the excluded names, in table order
numeric_cols(t) ==
    LET pos == SelectSeq([i \in DOMAIN t.cols |-> i],
                   LAMBDA i : /\ t.cols[i].dtype \in {"int64", "float64", "UInt32"}
                              /\ ~HasIdPart(t.cols[i].name)
                              /\ ~EndsWith(t.cols[i].name, <<"encoded">>)
                              /\ ~StartsWith(t.cols[i].name, <<"gender">>)
                              /\ ~StartsWith(t.cols[i].name, <<"product", "category">>))
    IN  [j \in DOMAIN pos |-> t.cols[pos[j]].name]

priority_cols == <<<<"income">>, <<"purchase", "amount">>, <<"final", "price">>, <<"age">>>>

other_cap == 6

FirstN(seq, n) == SubSeq(seq, 1, IF Len(seq) < n THEN Len(seq) ELSE n)

\* the cap the comment speaks of: the first 10 other columns
cols_to_check_ten(t) ==
    LET nc == numeric_cols(t)
    IN  SelectSeq(priority_cols, LAMBDA c : c \in Range(nc))
            \o FirstN(SelectSeq(nc, LAMBDA c : c \notin Range(priority_cols)), 10)

cols_to_check(t) ==
    LET nc == numeric_cols(t)
    IN  SelectSeq(priority_cols, LAMBDA c : c \in Range(nc))
            \o FirstN(SelectSeq(nc, LAMBDA c : c \notin Range(priority_cols)), other_cap)

add_anomaly_zscore(t, col, above) ==
    SetCol(t, col \o <<"anomaly", "zscore">>, "int64",
           flag_anomalies_zscore(Col(t, col), above))

add_anomaly_iqr(t, col) ==
    SetCol(t, col \o <<"anomaly", "iqr">>, "int64", flag_anomalies_iqr(Col(t, col)))

add_is_anomaly(t, col) ==
    SetCol(t, col \o <<"is", "anomaly">>, "int64",
           Zip(EitherFlag, Col(t, col \o <<"anomaly", "zscore">>),
                           Col(t, col \o <<"anomaly", "iqr">>)))

\* one turn of the loop: the three flag columns of col
flag_one(t, col, above) ==
    IF ~HasCol(t, col) THEN t
    ELSE Then(Then(Then(t, LAMBDA d : add_anomaly_zscore(d, col, above)),
                   LAMBDA d : add_anomaly_iqr(d, col)),
              LAMBDA d : add_is_anomaly(d, col))

RECURSIVE flag_all(_, _, _)
flag_all(t, cols, above) ==
    IF cols = <<>> THEN t
    ELSE Then(flag_one(t, cols[1], above), LAMBDA d : flag_all(d, Tail(cols), above))

\* df[anomaly_cols].sum(axis=1): the row sums over the *_is_anomaly columns,
\* missing cells skipped
anomaly_score_of(t) ==
    LET pos == SelectSeq([i \in DOMAIN t.cols |-> i],
                   LAMBDA i : EndsWith(t.cols[i].name, <<"is", "anomaly">>))
        RECURSIVE rowsum(_, _)
        rowsum(r, j) ==
            IF j > Len(pos) THEN Num(0)
            ELSE LET x == t.cols[pos[j]].vals[r]
                 IN  IF x.k = "nan" THEN rowsum(r, j + 1) ELSE FAdd(x, rowsum(r, j + 1))
    IN  [r \in Rows(t) |-> rowsum(r, 1)]

has_any_anomaly_of(t) ==
    [r \in Rows(t) |->
        IF FLt(Num(0), Col(t, <<"anomaly", "score">>).vals[r]) THEN Num(100) ELSE Num(0)]

add_anomaly_score(t) ==
    SetCol(t, <<"anomaly", "score">>, "int64", anomaly_score_of(t))

add_has_any_anomaly(t) ==
    SetCol(t, <<"has", "any", "anomaly">>, "int64", has_any_anomaly_of(t))

flag_anomalies_column(t, fresh, above) ==
    LET d0 == DataFrameCopy(t, fresh)
        d1 == Then(d0, LAMBDA d : flag_all(d, cols_to_check(d), above))
        d2 == Then(d1, add_anomaly_score)
        d3 == Then(d2, add_has_any_anomaly)
    IN  Returned(d3)

----------------------------------------------------------------------------
(* Input tables *)

U(x) == Num(100 * x)

\* amounts written in hundredths
H(x) == Num(x)

Row(id, age, gender, education, income, amount, date, category, rating, discount,
    shipping) ==
    <<id, age, gender, education, income, amount, date, category, rating, discount,
      shipping>>

\* the columns of the sample data, in file order, with the type of their values
InputColumns ==
    << [name |-> <<"customer", "id">>, base |-> "int"],
       [name |-> <<"age">>, base |-> "int"],
       [name |-> <<"gender">>, base |-> "text"],
       [name |-> <<"education">>, base |-> "text"],
       [name |-> <<"income">>, base |-> "int"],
       [name |-> <<"purchase", "amount">>, base |-> "float"],
       [name |-> <<"purchase", "date">>, base |-> "text"],
       [name |-> <<"product", "category">>, base |-> "text"],
       [name |-> <<"rating">>, base |-> "float"],
       [name |-> <<"discount", "percent">>, base |-> "float"],
       [name |-> <<"shipping", "cost">>, base |-> "float"] >>

\* rows to build input tables from: two ordinary rows, a row of zeros, a row of
\* missing and unknown values, and a row whose discount is a rounding tie
SampleRows ==
    << Row(U(1), U(22), Str("Male"), Str("Bachelor"), U(30000), U(100),
           Str("2024-01-15"), Str("Electronics"), H(450), U(10), U(5)),
       Row(U(2), U(35), Str("Female"), Str("Master"), U(50000), U(500),
           Str("2024-06-20"), Str("Clothing"), U(3), U(25), U(10)),
       Row(U(3), U(0), Str("Other"), Str("High School"), U(0), U(250),
           Str("2024-11-23"), Str("Food"), U(0), U(0), U(0)),
       Row(U(4), NaN, NaN, Str("Diploma"), NaN, NaN,
           NaN, NaN, NaN, NaN, NaN),
       Row(U(5), U(70), Str("Male"), Str("PhD"), U(100000), U(1),
           Str("2024-11-25"), Str("Home"), H(150), H(1250), U(25)) >>

\* the dtype pd.read_csv infers for a column
InferDtype(base, vals) ==
    IF \E i \in DOMAIN vals : vals[i].k = "str" THEN "object"
    ELSE IF base = "int" /\ NoNA(vals) THEN "int64"
    ELSE "float64"

\* the table of the chosen rows, restricted to the columns at positions keep
MakeTable(rows, keep) ==
    [oid |-> 0,
     index |-> [i \in DOMAIN rows |-> i - 1],
     cols |-> [j \in DOMAIN keep |->
                  LET vals == [i \in DOMAIN rows |-> SampleRows[rows[i]][keep[j]]]
                  IN  [name |-> InputColumns[keep[j]].name,
                       dtype |-> InferDtype(InputColumns[keep[j]].base, vals),
                       vals |-> vals]]]

AllColumns == [j \in DOMAIN InputColumns |-> j]

\* the rows of the fixture of the tests: four modest customers and a fifth
\* with a very high income and purchase amount
FixtureRows ==
    << Row(U(1), U(22), Str("Male"), Str("Bachelor"), U(30000), U(100),
           Str("2024-01-15"), Str("Electronics"), H(450), U(10), U(5)),
       Row(U(2), U(35), Str("Female"), Str("Master"), U(50000), U(500),
           Str("2024-06-20"), Str("Clothing"), U(3), U(25), U(10)),
       Row(U(3), U(45), Str("Male"), Str("PhD"), U(75000), U(1000),
           Str("2024-03-10"), Str("Food"), U(2), U(5), U(15)),
       Row(U(4), U(55), Str("Other"), Str("High School"), U(100000), U(2000),
           Str("2023-12-01"), Str("Books"), U(5), U(40), U(20)),
       Row(U(5), U(70), Str("Female"), Str("Bachelor"), U(400000), U(12000),
           Str("2024-11-25"), Str("Home"), H(150), U(0), U(25)) >>

\* the fixture as a file gives it to pd.read_csv: the dates are text
scenario_df ==
    [oid |-> 0,
     index |-> [i \in DOMAIN FixtureRows |-> i - 1],
     cols |-> [j \in DOMAIN InputColumns |->
                  LET vals == [i \in DOMAIN FixtureRows |-> FixtureRows[i][j]]
                  IN  [name |-> InputColumns[j].name,
                       dtype |-> InferDtype(InputColumns[j].base, vals),
                       vals |-> vals]]]

\* the fixture as the tests build it: purchase_date holds timestamps
sample_df ==
    [scenario_df EXCEPT !.cols = [j \in DOMAIN scenario_df.cols |->
        IF scenario_df.cols[j].name = <<"purchase", "date">>
        THEN to_datetime(scenario_df.cols[j])
        ELSE scenario_df.cols[j]]]

\* positions of the numeric columns the stages compute from
SourceColumns == {2, 5, 6, 9, 10, 11}

RowSeqs == UNION {[1..n -> DOMAIN SampleRows] : n \in 1..MaxRows}

FirstRows == {[i \in 1..n |-> i] : n \in 1..MaxRows}

\* a table that already holds columns named like derived ones
WithDerivedNames(t) ==
    [t EXCEPT !.cols = t.cols \o
        << [name |-> <<"total", "cost">>, dtype |-> "float64",
            vals |-> [i \in Rows(t) |-> U(1)]],
           [name |-> <<"gender", "Male">>, dtype |-> "int64",
            vals |-> [i \in Rows(t) |-> U(0)]] >>]

\* the city of each customer of SampleRows: a text column of the file that is
\* none of the columns the stages know by name
CityOf == <<Str("Paris"), Str("Lyon"), Str("Paris"), NaN, Str("Lyon")>>

\* a table with one more text column
WithTextColumn(t) ==
    LET vals == [i \in Rows(t) |-> CityOf[Col(t, <<"customer", "id">>).vals[i].v \div 100]]
    IN  [t EXCEPT !.cols = Append(t.cols,
            [name |-> <<"city">>, dtype |-> InferDtype("str", vals), vals |-> vals])]

\* a file of ten customers: nine of age 21 and one of age 70; the first has no
\* income on record, eight earn 30000 and the last 400000
ten_customers_df ==
    [oid |-> 0,
     index |-> [i \in 1..10 |-> i - 1],
     cols |-> << [name |-> <<"customer", "id">>, dtype |-> "int64",
                  vals |-> [i \in 1..10 |-> U(i)]],
                 [name |-> <<"age">>, dtype |-> "int64",
                  vals |-> [i \in 1..10 |-> IF i = 10 THEN U(70) ELSE U(21)]],
                 [name |-> <<"income">>, dtype |-> "float64",
                  vals |-> [i \in 1..10 |->
                               IF i = 1 THEN NaN
                               ELSE IF i = 10 THEN U(400000) ELSE U(30000)]] >>]

InputTables ==
    {scenario_df, sample_df, ten_customers_df}
        \cup {MakeTable(rows, AllColumns) : rows \in RowSeqs}
        \cup {WithDerivedNames(MakeTable(rows, AllColumns)) : rows \in RowSeqs}
        \cup {WithTextColumn(MakeTable(rows, AllColumns)) : rows \in RowSeqs}
        \cup {MakeTable(rows, SelectSeq(AllColumns,
                                  LAMBDA j : j \notin SourceColumns \/ j \in present)) :
                 rows \in FirstRows, present \in SUBSET SourceColumns}

\* the days pd.Timestamp.now() may fall on
NowDays == {DaysFromCivil(2024, 11, 24), DaysFromCivil(2024, 12, 25)}

\* the contents of a table, whatever object holds it
Data(t) == [index |-> t.index, cols |-> t.cols]

NoTable == [oid |-> 0, index |-> <<>>, cols |-> <<>>]

Init ==
    /\ df \in InputTables
    /\ before = NoTable
    /\ arg = NoTable
    /\ last = "none"
    /\ raised = "none"
    /\ calls = 0
    /\ now = 0
    /\ pc = "idle"
    /\ executed = <<>>
    /\ received = <<>>
    /\ returned = <<>>
    /\ written = 0
    /\ reported = FALSE
    /\ exit_status = -1

----------------------------------------------------------------------------
(* Direct calls of the stage functions, as the tests make *)

pipe_vars == <<pc, executed, received, returned, written, reported, exit_status>>

\* the caller passes the object df and keeps what the stage returns; writes of
\* the stage land in the caller's object when the stage works on that object
Call(stage, r) ==
    /\ before' = df
    /\ arg' = IF r.df.oid = df.oid THEN r.df ELSE df
    /\ df' = r.df
    /\ last' = stage
    /\ raised' = r.err
    /\ calls' = calls + 1

\* the time stage is called on tables whose date/time-named columns are input
\* columns: text or timestamps, not columns the stage itself derived
TimeApplicable(t) ==
    \A i \in DOMAIN t.cols :
        IsDateTimeName(t.cols[i].name) => t.cols[i].name = <<"purchase", "date">>

CallDerive ==
    /\ pc = "idle" /\ calls < MaxCalls
    /\ \E r \in {derive_computed_columns(df, calls + 1)} : Call("derive", r)
    /\ UNCHANGED <<now, pipe_vars>>

CallEncode ==
    /\ pc = "idle" /\ calls < MaxCalls
    /\ \E lenient \in BOOLEAN :
           \E r \in {encode_categorical_features(df, calls + 1, lenient)} :
               Call("encode", r)
    /\ UNCHANGED <<now, pipe_vars>>

CallBin ==
    /\ pc = "idle" /\ calls < MaxCalls
    /\ \E r \in {bin_numeric_ranges(df, calls + 1)} : Call("bin", r)
    /\ UNCHANGED <<now, pipe_vars>>

CallTime ==
    /\ pc = "idle" /\ calls < MaxCalls
    /\ TimeApplicable(df)
    /\ \E today \in NowDays :
           /\ \E r \in {time_based_feature_extraction(df, calls + 1, FALSE, today)} :
                  Call("time", r)
           /\ now' = today
    /\ UNCHANGED pipe_vars

CallAnomaly ==
    /\ pc = "idle" /\ calls < MaxCalls
    /\ \E above \in BOOLEAN :
           \E r \in {flag_anomalies_column(df, calls + 1, above)} : Call("anomaly", r)
    /\ UNCHANGED <<now, pipe_vars>>

NextCalls == CallDerive \/ CallEncode \/ CallBin \/ CallTime \/ CallAnomaly

----------------------------------------------------------------------------
(* run_pipeline *)

lib_vars == <<last, raised, calls>>

\* df = stage(df) without the assignment: the stage's table is dropped
StepDropsResult(stage, r, next) ==
    /\ received' = Append(received, Data(df))
    /\ before' = df
    /\ arg' = df
    /\ df' = df
    /\ returned' = Append(returned, Data(r.df))
    /\ executed' = Append(executed, stage)
    /\ pc' = next
    /\ UNCHANGED <<written, reported, exit_status, lib_vars>>

\* a stage of the driver: process_csv hands the stage a copy of the table it
\* received; an exception leaves the try block for the handler
Step(stage, r, next) ==
    /\ received' = Append(received, Data(df))
    /\ before' = df
    /\ arg' = IF r.df.oid = df.oid THEN r.df ELSE df
    /\ IF r.err = "none"
       THEN /\ df' = r.df
            /\ returned' = Append(returned, Data(r.df))
            /\ executed' = Append(executed, stage)
            /\ pc' = next
       ELSE /\ pc' = "except"
            /\ UNCHANGED <<df, returned, executed>>
    /\ UNCHANGED <<written, reported, exit_status, lib_vars>>

\* original_df = pd.read_csv(input_csv): the file may be missing or corrupt
PipelineLoad ==
    /\ pc = "idle" /\ calls = 0
    /\ \A j \in DOMAIN df.cols : df.cols[j].dtype # "datetime64"
    /\ \E ok \in BOOLEAN : pc' = IF ok THEN "step1" ELSE "except"
    /\ UNCHANGED <<df, before, arg, now, executed, received, returned, written, reported,
                   exit_status, lib_vars>>

PipelineDerive ==
    /\ pc = "step1"
    /\ \E r \in {derive_computed_columns(df, 1)} : Step("derive", r, "step2")
    /\ UNCHANGED now

PipelineEncode ==
    /\ pc = "step2"
    /\ \E lenient \in BOOLEAN :
           \E r \in {encode_categorical_features(df, 2, lenient)} :
               Step("encode", r, "step3")
    /\ UNCHANGED now

PipelineBin ==
    /\ pc = "step3"
    /\ \E r \in {bin_numeric_ranges(df, 3)} : Step("bin", r, "step4")
    /\ UNCHANGED now

PipelineTime ==
    /\ pc = "step4"
    /\ \E today \in NowDays :
           /\ \E r \in {time_based_feature_extraction(df, 4, FALSE, today)} :
                  Step("time", r, "step5")
           /\ now' = today

PipelineAnomaly ==
    /\ pc = "step5"
    /\ \E above \in BOOLEAN :
           \E r \in {flag_anomalies_column(df, 5, above)} : Step("anomaly", r, "save")
    /\ UNCHANGED now

\* df.to_csv(output_csv): the write may fail
PipelineSave ==
    /\ pc = "save"
    /\ \E ok \in BOOLEAN :
           IF ok THEN written' = written + 1 /\ pc' = "return"
           ELSE written' = written /\ pc' = "except"
    /\ UNCHANGED <<df, before, arg, now, executed, received, returned, reported,
                   exit_status, lib_vars>>

\* return df: the script ends with status 0
PipelineReturn ==
    /\ pc = "return"
    /\ exit_status' = 0
    /\ pc' = "exited"
    /\ UNCHANGED <<df, before, arg, now, executed, received, returned, written, reported,
                   lib_vars>>

\* except Exception: pass; the run ends as if nothing had happened
PipelineExceptSwallowed ==
    /\ pc = "except"
    /\ exit_status' = 0
    /\ pc' = "exited"
    /\ UNCHANGED <<df, before, arg, now, executed, received, returned, written, reported,
                   lib_vars>>

\* except Exception: print the error, sys.exit(1)
PipelineExcept ==
    /\ pc = "except"
    /\ reported' = TRUE
    /\ exit_status' = 1
    /\ pc' = "exited"
    /\ UNCHANGED <<df, before, arg, now, executed, received, returned, written, lib_vars>>

NextPipeline ==
    \/ PipelineLoad \/ PipelineDerive \/ PipelineEncode \/ PipelineBin \/ PipelineTime
    \/ PipelineAnomaly \/ PipelineSave \/ PipelineReturn \/ PipelineExcept

Next == NextCalls \/ NextPipeline

Spec == Init /\ [][Next]_vars

----------------------------------------------------------------------------
(* Properties of the stages *)

\* the stage last called directly has returned
StageReturned == last # "none" /\ raised = "none"

\* table b holds the rows of table a, in the order of a
SameRows(a, b) ==
    /\ b.index = a.index
    /\ \A i \in DOMAIN b.cols : DOMAIN b.cols[i].vals = DOMAIN a.index

\* C1: every stage returns a table with exactly the rows of its input, in the
\* input's order, in a direct call after any earlier calls and in each stage
\* of the driver's chain
C1_RowsPreserved ==
    /\ StageReturned => SameRows(before, df)
    /\ \A k \in DOMAIN returned : SameRows(received[k], returned[k])

\* C1: a second stage has returned on a two-row table and added columns to it
C1_Witness ==
    /\ StageReturned /\ last = "encode" /\ calls = 2
    /\ NRows(before) = 2
    /\ Len(df.cols) > Len(before.cols)

\* C2: after a stage was called, the table the caller passed holds the column
\* names, column types and cell values it held before the call
C2_InputNotMutated == before # NoTable => Data(arg) = Data(before)

\* C2: the time stage has parsed the text column purchase_date in what it
\* returns, and the caller's table still holds the text
C2_Witness ==
    /\ StageReturned /\ last = "time"
    /\ HasCol(before, <<"purchase", "date">>)
    /\ Col(before, <<"purchase", "date">>).dtype = "object"
    /\ Col(df, <<"purchase", "date">>).dtype = "datetime64"
    /\ Col(arg, <<"purchase", "date">>).dtype = "object"

\* the time stage turned a text column (or a column with no value at all)
\* into the timestamps it spells
Retyped(old, new) ==
    /\ last = "time"
    /\ old.dtype = "object" \/ \A i \in DOMAIN old.vals : IsNA(old.vals[i])
    /\ new = to_datetime(old)

\* C3: whenever a stage returns, every column of its input stands in the
\* output at its position under its name with its cell values (or, after the
\* time stage, with the timestamps its text spells), so that whatever the
\* stage added comes after the input columns
C3_InputColumnsPreserved ==
    StageReturned =>
        /\ Len(df.cols) >= Len(before.cols)
        /\ \A i \in DOMAIN before.cols :
               \/ df.cols[i] = before.cols[i]
               \/ Retyped(before.cols[i], df.cols[i])

\* C4: the column names of the table are unique after any sequence of stage
\* calls on a table whose column names are unique
C4_UniqueColumnNames == UniqueNames(df)


\* a derived column and the columns it is computed from
DeriveRules ==
    { [out |-> <<"total", "cost">>,
       src |-> {<<"purchase", "amount">>, <<"shipping", "cost">>}],
      [out |-> <<"discount", "amount">>,
       src |-> {<<"purchase", "amount">>, <<"discount", "percent">>}],
      [out |-> <<"final", "price">>,
       src |-> {<<"total", "cost">>, <<"discount", "amount">>}],
      [out |-> <<"price", "per", "rating">>,
       src |-> {<<"final", "price">>, <<"rating">>}],
      [out |-> <<"income", "purchase", "ratio">>,
       src |-> {<<"income">>, <<"purchase", "amount">>}],
      [out |-> <<"age", "squared">>, src |-> {<<"age">>}],
      [out |-> <<"spending", "power", "index">>, src |-> {<<"income">>, <<"age">>}] }

BinRules ==
    { [out |-> <<"age", "group">>, src |-> {<<"age">>}],
      [out |-> <<"income", "bracket">>, src |-> {<<"income">>}],
      [out |-> <<"purchase", "category">>, src |-> {<<"purchase", "amount">>}],
      [out |-> <<"rating", "category">>, src |-> {<<"rating">>}],
      [out |-> <<"discount", "tier">>, src |-> {<<"discount", "percent">>}],
      [out |-> <<"price", "quartile">>, src |-> {<<"final", "price">>}],
      [out |-> <<"spending", "ratio", "bin">>,
       src |-> {<<"income", "purchase", "ratio">>}] }

\* table b holds a rule's column exactly when it holds the rule's sources or
\* table a held the column already
AddsExactly(rules, a, b) ==
    \A r \in rules :
        HasCol(b, r.out) <=> (HasCol(a, r.out) \/ \A c \in r.src : HasCol(b, c))

C7_Completes == last \in {"derive", "bin"} => raised = "none"

C7_Skips ==
    /\ (StageReturned /\ last = "derive") => AddsExactly(DeriveRules, before, df)
    /\ (StageReturned /\ last = "bin") => AddsExactly(BinRules, before, df)

\* C7: derive_computed_columns and bin_numeric_ranges complete without raising
\* on every table, whichever of their source columns it holds, and add a
\* derived column exactly when the columns it is computed from are there
C7_MissingColumnsSkipped == C7_Completes /\ C7_Skips

\* the cells of one row of the three price columns
PriceCells(t, i) ==
    [p |-> Col(t, <<"purchase", "amount">>).vals[i],
     s |-> Col(t, <<"shipping", "cost">>).vals[i],
     d |-> Col(t, <<"discount", "percent">>).vals[i]]

\* purchase_amount + shipping_cost in hundredths, missing when one of them is
ExpectedTotal(c) ==
    IF IsNum(c.p) /\ IsNum(c.s) THEN Num(c.p.v + c.s.v) ELSE NaN

\* round(purchase_amount + shipping_cost
\*       - round(purchase_amount * discount_percent / 100, 2), 2) in hundredths
ExpectedFinal(c) ==
    IF IsNum(c.p) /\ IsNum(c.s) /\ IsNum(c.d)
    THEN Num(c.p.v + c.s.v - RoundHalfEven(c.p.v * c.d.v, 10000))
    ELSE NaN

PricesRight(a, b) ==
    (/\ HasCol(a, <<"purchase", "amount">>) /\ HasCol(a, <<"shipping", "cost">>)
     /\ HasCol(a, <<"discount", "percent">>))
    => /\ HasCol(b, <<"total", "cost">>) /\ HasCol(b, <<"final", "price">>)
       /\ \A i \in Rows(a) :
              /\ Col(b, <<"total", "cost">>).vals[i] = ExpectedTotal(PriceCells(a, i))
              /\ Col(b, <<"final", "price">>).vals[i] = ExpectedFinal(PriceCells(a, i))

\* C8: in every row of what derive_computed_columns returns for a table with
\* the three price columns, total_cost is purchase_amount + shipping_cost and
\* final_price is that sum less the discount rounded to two decimals, in a
\* direct call and as the first stage of the driver
C8_PriceFormulas ==
    /\ (StageReturned /\ last = "derive") => PricesRight(before, df)
    /\ returned # <<>> => PricesRight(received[1], returned[1])

\* C8: derive_computed_columns has returned for a row of 1.00 at 12.5 percent
\* with 25.00 shipping: the discount 0.125 is rounded to 0.12, the final
\* price is 25.88
C8_Witness ==
    /\ StageReturned /\ last = "derive"
    /\ HasCol(before, <<"purchase", "amount">>) /\ HasCol(before, <<"shipping", "cost">>)
    /\ HasCol(before, <<"discount", "percent">>)
    /\ \E i \in Rows(df) :
           /\ Col(before, <<"purchase", "amount">>).vals[i] = Num(100)
           /\ Col(before, <<"discount", "percent">>).vals[i] = Num(1250)
           /\ Col(df, <<"total", "cost">>).vals[i] = Num(2600)
           /\ Col(df, <<"final", "price">>).vals[i] = Num(2588)

\* wherever column den of table t is zero, column out of it is not-a-number
NaNWhereZero(t, den, out) ==
    (HasCol(t, den) /\ HasCol(t, out)) =>
        \A i \in Rows(t) :
            Col(t, den).vals[i] = Num(0) => Col(t, out).vals[i] = NaN

\* a row of table t has a zero in rating, income or age
ZeroDivisor(t) ==
    \E c \in {<<"rating">>, <<"income">>, <<"age">>} :
        HasCol(t, c) /\ \E i \in Rows(t) : Col(t, c).vals[i] = Num(0)

\* C9: a row whose rating, income or age is zero gets not-a-number in
\* price_per_rating, income_purchase_ratio or spending_power_index, and no
\* stage called on a table with such a row raises
C9_DivisionByZeroIsNaN ==
    /\ (StageReturned /\ last = "derive") =>
           /\ NaNWhereZero(df, <<"rating">>, <<"price", "per", "rating">>)
           /\ NaNWhereZero(df, <<"income">>, <<"income", "purchase", "ratio">>)
           /\ NaNWhereZero(df, <<"age">>, <<"spending", "power", "index">>)
    /\ (last # "none" /\ ZeroDivisor(before)) => raised = "none"

\* the rank the education levels are given
RankOf(c) ==
    CASE c = Str("High School") -> Num(0)
      [] c = Str("Bachelor") -> Num(100)
      [] c = Str("Master") -> Num(200)
      [] c = Str("PhD") -> Num(300)
      [] OTHER -> NaN

EducationRanked(a, b) ==
    HasCol(a, <<"education">>) =>
        /\ HasCol(b, <<"education", "encoded">>)
        /\ Col(b, <<"education">>) = Col(a, <<"education">>)
        /\ PosOf(b, <<"education">>) = PosOf(a, <<"education">>)
        /\ \A i \in Rows(a) :
               Col(b, <<"education", "encoded">>).vals[i]
                   = RankOf(Col(a, <<"education">>).vals[i])

\* C10: in what encode_categorical_features returns, education_encoded is in
\* every row the rank 0, 1, 2, 3 of High School, Bachelor, Master, PhD, and
\* missing for any other education value, and the education column stands
\* unchanged, in a direct call and as the second stage of the driver
C10_EducationRank ==
    /\ (StageReturned /\ last = "encode") => EducationRanked(before, df)
    /\ Len(returned) >= 2 => EducationRanked(received[2], returned[2])

\* C10: encode_categorical_features has returned for a table with a PhD row
\* and a row of an education outside the list: rank 3 and a missing value
C10_Witness ==
    /\ StageReturned /\ last = "encode"
    /\ HasCol(before, <<"education">>)
    /\ \E i, j \in Rows(df) :
           /\ Col(before, <<"education">>).vals[i] = Str("PhD")
           /\ Col(df, <<"education", "encoded">>).vals[i] = Num(300)
           /\ Col(before, <<"education">>).vals[j] = Str("Diploma")
           /\ Col(df, <<"education", "encoded">>).vals[j] = NaN

\* the columns of table b that stand after the columns of table a and are
\* named col_<value>, as positions
Indicators(a, b, col) ==
    {p \in DOMAIN b.cols :
        /\ p > Len(a.cols)
        /\ Len(b.cols[p].name) = Len(col) + 1
        /\ SubSeq(b.cols[p].name, 1, Len(col)) = col
        /\ b.cols[p].dtype = "bool"}

\* the distinct values column c holds
Observed(c) == {c.vals[i] : i \in NonNA(c.vals)}

\* one indicator column per observed value of col, every cell 0 or 1
IndicatorPerValue(a, b, col) ==
    /\ {Str(b.cols[p].name[Len(col) + 1]) : p \in Indicators(a, b, col)}
           = Observed(Col(a, col))
    /\ Cardinality(Indicators(a, b, col)) = Cardinality(Observed(Col(a, col)))
    /\ \A p \in Indicators(a, b, col) : \A i \in Rows(b) :
           b.cols[p].vals[i] \in {Bool(TRUE), Bool(FALSE)}

\* in row i exactly one indicator column of col is 1, the one named after
\* the row's value
ExactlyOne(a, b, col, i) ==
    \E p \in Indicators(a, b, col) :
        /\ Str(b.cols[p].name[Len(col) + 1]) = Col(a, col).vals[i]
        /\ \A q \in Indicators(a, b, col) : b.cols[q].vals[i] = Bool(q = p)

NominalFeatures == {<<"gender">>, <<"product", "category">>}

\* the rows with a value in the nominal columns have exactly one indicator set
C11_OneHotWhereValue ==
    (StageReturned /\ last = "encode") =>
        \A col \in NominalFeatures : HasCol(before, col) =>
            /\ IndicatorPerValue(before, df, col)
            /\ \A i \in Rows(before) :
                   ~IsNA(Col(before, col).vals[i]) => ExactlyOne(before, df, col, i)

\* C11: for gender and product_category, encode_categorical_features adds one
\* indicator column per observed value, every indicator cell is 0 or 1, and
\* in every row exactly one indicator of the source column is 1, the one named
\* after the row's value
C11_OneHot ==
    (StageReturned /\ last = "encode") =>
        \A col \in NominalFeatures : HasCol(before, col) =>
            /\ IndicatorPerValue(before, df, col)
            /\ \A i \in Rows(before) : ExactlyOne(before, df, col, i)

\* a text column of table t that no date parser reads as dates and that is
\* neither the ordinal nor a nominal column
FrequencyColumn(c) ==
    /\ c.dtype = "object"
    /\ ~ParsesAsDatetime(c, TRUE) /\ ~ParsesAsDatetime(c, FALSE)
    /\ c.name \notin {<<"education">>} \cup NominalFeatures

\* a column that gets no frequency: read as dates by every parser, ordinal,
\* nominal, or not text
NoFrequencyColumn(c) ==
    \/ c.dtype # "object"
    \/ ParsesAsDatetime(c, TRUE) /\ ParsesAsDatetime(c, FALSE)
    \/ c.name \in {<<"education">>} \cup NominalFeatures

\* the rows of column c that share the value of row i, over all rows of the
\* table, with four decimals
ShareOfRows(c, i) ==
    Num4(RoundHalfEven(10000 * Cardinality({j \in DOMAIN c.vals : c.vals[j] = c.vals[i]}),
                       Len(c.vals)))

\* no <col>_freq is added for a column that gets no frequency
C12_NoOtherFreq ==
    (StageReturned /\ last = "encode") =>
        \A p \in DOMAIN before.cols :
            (/\ NoFrequencyColumn(before.cols[p])
             /\ ~HasCol(before, Append(before.cols[p].name, "freq")))
            => ~HasCol(df, Append(before.cols[p].name, "freq"))

\* <col>_freq of a frequency column without missing values is the share of rows
C12_FreqWhereComplete ==
    (StageReturned /\ last = "encode") =>
        \A p \in DOMAIN before.cols :
            (FrequencyColumn(before.cols[p]) /\ NoNA(before.cols[p].vals)) =>
                /\ HasCol(df, Append(before.cols[p].name, "freq"))
                /\ \A i \in Rows(before) :
                       Col(df, Append(before.cols[p].name, "freq")).vals[i]
                           = ShareOfRows(before.cols[p], i)

\* C12: for every text column that is not datetime-parseable, ordinal or
\* nominal, encode_categorical_features adds <col>_freq holding in each row the
\* number of rows of the table with the row's value divided by the number of
\* rows of the table, to four decimals; it adds no <col>_freq for the others
C12_Frequency ==
    /\ C12_NoOtherFreq
    /\ (StageReturned /\ last = "encode") =>
           \A p \in DOMAIN before.cols :
               FrequencyColumn(before.cols[p]) =>
                   /\ HasCol(df, Append(before.cols[p].name, "freq"))
                   /\ \A i \in Rows(before) :
                          Col(df, Append(before.cols[p].name, "freq")).vals[i]
                              = ShareOfRows(before.cols[p], i)

\* the five bin tables: the finite boundaries in units, the labels, and
\* whether the last interval has no upper boundary
BinTables ==
    { [src |-> <<"age">>, out |-> <<"age", "group">>,
       bounds |-> <<0, 25, 35, 50, 65, 100>>, open |-> FALSE,
       labels |-> <<"18-25", "26-35", "36-50", "51-65", "65+">>],
      [src |-> <<"income">>, out |-> <<"income", "bracket">>,
       bounds |-> <<0, 30000, 50000, 75000, 100000>>, open |-> TRUE,
       labels |-> <<"Low", "Lower-Middle", "Middle", "Upper-Middle", "High">>],
      [src |-> <<"purchase", "amount">>, out |-> <<"purchase", "category">>,
       bounds |-> <<0, 100, 500, 1000, 2000>>, open |-> TRUE,
       labels |-> <<"Very Low", "Low", "Medium", "High", "Very High">>],
      [src |-> <<"rating">>, out |-> <<"rating", "category">>,
       bounds |-> <<0, 2, 3, 4, 5>>, open |-> FALSE,
       labels |-> <<"Poor", "Fair", "Good", "Excellent">>],
      [src |-> <<"discount", "percent">>, out |-> <<"discount", "tier">>,
       bounds |-> <<0, 10, 25, 40, 100>>, open |-> FALSE,
       labels |-> <<"No Discount", "Low Discount", "Medium Discount",
                    "High Discount">>] }

\* the label of the interval boundary[i] < v <= boundary[i+1] that holds v,
\* missing when there is none; lowest tells whether the lowest boundary
\* itself belongs to the first interval
ExpectedLabel(v, b, lowest) ==
    LET n == Len(b.bounds)
        inside == {k \in 1..(n - 1) :
                      100 * b.bounds[k] < v.v /\ v.v <= 100 * b.bounds[k + 1]}
    IN  IF ~IsNum(v) THEN NaN
        ELSE IF lowest /\ v.v = 100 * b.bounds[1] THEN Str(b.labels[1])
        ELSE IF inside # {} THEN Str(b.labels[CHOOSE k \in inside : TRUE])
        ELSE IF b.open /\ v.v > 100 * b.bounds[n] THEN Str(b.labels[n])
        ELSE NaN

\* the bin column of table b holds the expected labels of column src of a
BinnedAs(a, b, lowest(_)) ==
    \A t \in BinTables : HasCol(a, t.src) =>
        /\ HasCol(b, t.out)
        /\ \A i \in Rows(a) :
               /\ Col(b, t.out).vals[i] = ExpectedLabel(Col(a, t.src).vals[i], t, lowest(t))
               /\ Col(b, t.out).vals[i] \in {Str(l) : l \in Range(t.labels)} \cup {NaN}

\* the claim with the lowest boundary inside the first interval only in the
\* tables without an open last interval
C13_BinTablesAsCoded ==
    (StageReturned /\ last = "bin") => BinnedAs(before, df, LAMBDA t : ~t.open)

\* C13: in each of the five bin tables bin_numeric_ranges gives a value v the
\* i-th label exactly when boundary[i] < v <= boundary[i+1], the first label
\* when v is the lowest boundary 0, the last label when v lies above the last
\* finite boundary of income or purchase_amount, and otherwise no label
C13_BinTables ==
    (StageReturned /\ last = "bin") => BinnedAs(before, df, LAMBDA t : TRUE)

\* the datetime columns the time stage detects in table a: the date/time-named
\* columns that parse
Detected(a) ==
    {a.cols[p].name : p \in {q \in DOMAIN a.cols :
        IsDateTimeName(a.cols[q].name) /\ ParsesAsDatetime(a.cols[q], FALSE)}}

\* in table b, <col>_is_weekend is 0 or 1, and 1 exactly on day_of_week 5 or 6
WeekendRight(a, b) ==
    \A col \in Detected(a) :
        /\ HasCol(b, col \o <<"is", "weekend">>)
        /\ HasCol(b, col \o <<"day", "of", "week">>)
        /\ \A i \in Rows(b) :
               LET w == Col(b, col \o <<"is", "weekend">>).vals[i]
                   dow == Col(b, col \o <<"day", "of", "week">>).vals[i]
               IN  /\ w \in {Num(0), Num(100)}
                   /\ w = Num(100) <=> dow \in {Num(500), Num(600)}

\* C14: for every detected datetime column and every row, <col>_is_weekend is
\* 0 or 1, and it is 1 exactly when <col>_day_of_week is 5 or 6, in a direct
\* call and as the fourth stage of the driver
C14_WeekendFlag ==
    /\ (StageReturned /\ last = "time") => WeekendRight(before, df)
    /\ Len(returned) >= 4 => WeekendRight(received[4], returned[4])

\* C14: the time stage has returned for a Saturday row (flag 1) and a Monday
\* row (flag 0)
C14_Witness ==
    /\ StageReturned /\ last = "time"
    /\ HasCol(df, <<"purchase", "date", "is", "weekend">>)
    /\ \E i, j \in Rows(df) :
           /\ Col(df, <<"purchase", "date", "day", "of", "week">>).vals[i] = Num(500)
           /\ Col(df, <<"purchase", "date", "is", "weekend">>).vals[i] = Num(100)
           /\ Col(df, <<"purchase", "date", "day", "of", "week">>).vals[j] = Num(0)
           /\ Col(df, <<"purchase", "date", "is", "weekend">>).vals[j] = Num(0)

\* the columns of a table named <col>_is_anomaly
IsAnomalyColumns(b) ==
    {p \in DOMAIN b.cols : EndsWith(b.cols[p].name, <<"is", "anomaly">>)}

Flag01 == {Num(0), Num(100)}

\* the three flags of each checked column are 0 or 1 and the combined one is
\* set exactly where one of the two tests fired
PerColumnFlagsRight(b) ==
    \A p \in IsAnomalyColumns(b) :
        LET name == b.cols[p].name
            base == SubSeq(name, 1, Len(name) - 2)
            z == base \o <<"anomaly", "zscore">>
            q == base \o <<"anomaly", "iqr">>
        IN  /\ HasCol(b, z) /\ HasCol(b, q)
            /\ \A i \in Rows(b) :
                   /\ Col(b, z).vals[i] \in Flag01
                   /\ Col(b, q).vals[i] \in Flag01
                   /\ b.cols[p].vals[i] \in Flag01
                   /\ b.cols[p].vals[i] = Num(100)
                          <=> \/ Col(b, z).vals[i] = Num(100)
                              \/ Col(b, q).vals[i] = Num(100)

\* anomaly_score counts the combined flags of the row, has_any_anomaly tells
\* whether there is one
TotalsRight(b) ==
    /\ HasCol(b, <<"anomaly", "score">>) /\ HasCol(b, <<"has", "any", "anomaly">>)
    /\ \A i \in Rows(b) :
           LET score == Col(b, <<"anomaly", "score">>).vals[i]
               any == Col(b, <<"has", "any", "anomaly">>).vals[i]
               fired == {p \in IsAnomalyColumns(b) : b.cols[p].vals[i] = Num(100)}
           IN  /\ score = Num(100 * Cardinality(fired))
               /\ score.v >= 0
               /\ any \in Flag01
               /\ any = Num(100) <=> score.v > 0

FlagsRight(b) == PerColumnFlagsRight(b) /\ TotalsRight(b)

\* C15: in the output of flag_anomalies_column every per-column flag is 0 or 1,
\* <col>_is_anomaly is 1 exactly where the z-score or the IQR flag is 1,
\* anomaly_score is the non-negative sum of the *_is_anomaly columns, and
\* has_any_anomaly is 0 or 1 and is 1 exactly where anomaly_score > 0
C15_AnomalyFlags ==
    /\ (StageReturned /\ last = "anomaly") => FlagsRight(df)
    /\ Len(returned) >= 5 => FlagsRight(returned[5])

\* C15: a table came back in which one test fired for a row and the other did
\* not, and whose anomaly_score is positive there
C15_Witness ==
    /\ StageReturned /\ last = "anomaly"
    /\ HasCol(df, <<"income", "is", "anomaly">>)
    /\ \E i \in Rows(df) :
           /\ Col(df, <<"income", "anomaly", "zscore">>).vals[i] = Num(0)
           /\ Col(df, <<"income", "anomaly", "iqr">>).vals[i] = Num(100)
           /\ Col(df, <<"income", "is", "anomaly">>).vals[i] = Num(100)
           /\ Col(df, <<"anomaly", "score">>).vals[i].v > 0
           /\ Col(df, <<"has", "any", "anomaly">>).vals[i] = Num(100)

\* the position of the scenario's outlier: the row with age 70, income 400000,
\* purchase amount 12000, education Bachelor and purchase date 2024-11-25
OutlierRow == 5

\* the five features of the outlier row in the table b, with the given
\* weekend flag
ScenarioFeatures(b, weekend) ==
    /\ HasCol(b, <<"income", "is", "anomaly">>)
    /\ HasCol(b, <<"purchase", "amount", "is", "anomaly">>)
    /\ HasCol(b, <<"education", "encoded">>)
    /\ HasCol(b, <<"purchase", "date", "season">>)
    /\ HasCol(b, <<"purchase", "date", "is", "weekend">>)
    /\ Col(b, <<"income", "is", "anomaly">>).vals[OutlierRow] = Num(100)
    /\ Col(b, <<"purchase", "amount", "is", "anomaly">>).vals[OutlierRow] = Num(100)
    /\ Col(b, <<"education", "encoded">>).vals[OutlierRow] = Num(100)
    /\ Col(b, <<"purchase", "date", "season">>).vals[OutlierRow] = Str("Fall")
    /\ Col(b, <<"purchase", "date", "is", "weekend">>).vals[OutlierRow] = weekend

\* the five stages ran, in the pipeline's order, on the scenario's table
ScenarioRan ==
    /\ Len(returned) >= 5
    /\ received[1] = Data(scenario_df)

\* C16 as stated: on the five-row scenario the outlier row has
\* income_is_anomaly = 1, purchase_amount_is_anomaly = 1, education_encoded = 1,
\* purchase_date_season = 'Fall' and purchase_date_is_weekend = 1
C16_ScenarioWeekend == ScenarioRan => ScenarioFeatures(returned[5], Num(100))

\* C16 amended: on the five-row scenario the outlier row has
\* income_is_anomaly = 1, purchase_amount_is_anomaly = 1, education_encoded = 1,
\* purchase_date_season = 'Fall' and, 2024-11-25 being a Monday,
\* purchase_date_is_weekend = 0
C16_ScenarioMonday == ScenarioRan => ScenarioFeatures(returned[5], Num(0))

\* C16: the chain ran on the scenario and the outlier row is the one described
C16_Witness ==
    /\ ScenarioRan
    /\ Col(returned[5], <<"age">>).vals[OutlierRow] = U(70)
    /\ Col(returned[5], <<"income">>).vals[OutlierRow] = U(400000)
    /\ Col(returned[5], <<"purchase", "amount">>).vals[OutlierRow] = U(12000)
    /\ Col(returned[5], <<"education">>).vals[OutlierRow] = Str("Bachelor")
    /\ Col(received[1], <<"purchase", "date">>).vals[OutlierRow] = Str("2024-11-25")

\* the name of a column the anomaly stage derives
AnomalyDerived(name) ==
    \/ EndsWith(name, <<"anomaly", "zscore">>)
    \/ EndsWith(name, <<"anomaly", "iqr">>)
    \/ EndsWith(name, <<"is", "anomaly">>)
    \/ name = <<"anomaly", "score">>
    \/ name = <<"has", "any", "anomaly">>

\* none of the columns checked in the table a is anomaly-derived, an
\* identifier or an encoded column
ChecksNoDerived(a) ==
    \A j \in DOMAIN cols_to_check(a) :
        LET name == cols_to_check(a)[j]
        IN  /\ ~AnomalyDerived(name)
            /\ ~HasIdPart(name)
            /\ ~EndsWith(name, <<"encoded">>)

\* C17: flag_anomalies_column never checks an anomaly-derived column
\* (*_anomaly_zscore, *_anomaly_iqr, *_is_anomaly, anomaly_score,
\* has_any_anomaly), a column whose name contains 'id' or a column ending in
\* '_encoded', also when its input is the output of a previous call
C17_NoDerivedChecked ==
    /\ (StageReturned /\ last = "anomaly") => ChecksNoDerived(before)
    /\ Len(received) >= 5 => ChecksNoDerived(received[5])

\* the eligible columns of a table: the numeric ones the stage's filter keeps
Eligible(a) == {numeric_cols(a)[j] : j \in DOMAIN numeric_cols(a)}

\* the priority columns among the eligible ones el, in priority order, then the
\* first six other eligible columns in the order of the table a
ExpectedChecked(a, el) ==
    LET prio == SelectSeq(<<<<"income">>, <<"purchase", "amount">>,
                            <<"final", "price">>, <<"age">>>>,
                          LAMBDA c : c \in el)
        names == [i \in DOMAIN a.cols |-> a.cols[i].name]
        others == SelectSeq(names, LAMBDA c : c \in el /\ c \notin Range(prio))
    IN  prio \o SubSeq(others, 1, IF Len(others) < 6 THEN Len(others) ELSE 6)

\* the columns the stage writes for a list of checked columns, in order
FlagColumnsOf(list) ==
    LET suffix == << <<"anomaly", "zscore">>, <<"anomaly", "iqr">>, <<"is", "anomaly">> >>
    IN  [k \in 1..(3 * Len(list)) |-> list[(k - 1) \div 3 + 1] \o suffix[((k - 1) % 3) + 1]]
            \o << <<"anomaly", "score">>, <<"has", "any", "anomaly">> >>

\* the names of the columns of b after those of a
AppendedNames(a, b) ==
    [k \in 1..(Len(b.cols) - Len(a.cols)) |-> b.cols[Len(a.cols) + k].name]

\* no column of the table is named like an anomaly-derived one
NeverFlagged(a) == \A i \in DOMAIN a.cols : ~AnomalyDerived(a.cols[i].name)

ChecksInOrder(a, b) ==
    \E el \in {Eligible(a)} :
        \E checked \in {ExpectedChecked(a, el)} :
            /\ Len(checked) <= 10
            /\ \A i, j \in DOMAIN checked : i # j => checked[i] # checked[j]
            /\ Len(b.cols) - Len(a.cols) <= 30 + 2
            /\ NeverFlagged(a) => AppendedNames(a, b) = FlagColumnsOf(checked)

EdgesCoincide(a) ==
    /\ HasCol(a, <<"final", "price">>)
    /\ NumsOf(Col(a, <<"final", "price">>)) # <<>>
    /\ Cardinality(Range(quartile_edges(Col(a, <<"final", "price">>)))) < 5

\* every priced row of b carries one of the labels Q1..Q4 and fewer than four
\* of them are in use
FewerQuartiles(a, b) ==
    /\ HasCol(b, <<"price", "quartile">>)
    /\ \A i \in Rows(b) :
           Col(a, <<"final", "price">>).vals[i].k = "num"
               => Col(b, <<"price", "quartile">>).vals[i]
                      \in {Str(quartile_labels[j]) : j \in DOMAIN quartile_labels}
    /\ Cardinality({Col(b, <<"price", "quartile">>).vals[i] : i \in Rows(b)}
                       \ {NaN}) < 4

\* C19: when the quartile edges of final_price coincide, bin_numeric_ranges
\* drops the duplicate edges and completes without error, labelling every
\* priced row with one of Q1..Q4 and using fewer than 4 distinct labels
C19_DuplicateEdgesCollapse ==
    /\ (last = "bin" /\ EdgesCoincide(before))
           => raised = "none" /\ FewerQuartiles(before, df)
    /\ (Len(received) >= 3 /\ EdgesCoincide(received[3]))
           => Len(returned) >= 3 /\ FewerQuartiles(received[3], returned[3])

\* in table b, <col>_days_from_today is the whole-day distance from the row's
\* timestamp to the day the stage ran, and <col>_is_recent is 1 exactly for
\* the distances 0..30
RecentRight(a, b) ==
    \A col \in Detected(a) :
        /\ HasCol(b, col \o <<"days", "from", "today">>)
        /\ HasCol(b, col \o <<"is", "recent">>)
        /\ \A i \in Rows(b) :
               LET ts == Col(b, col).vals[i]
                   d == Col(b, col \o <<"days", "from", "today">>).vals[i]
                   r == Col(b, col \o <<"is", "recent">>).vals[i]
               IN  /\ ts.k = "ts" => d = Num(100 * (now - ts.v))
                   /\ ts.k # "ts" => d = NaN
                   /\ r \in {Num(0), Num(100)}
                   /\ r = Num(100) <=> (d.k = "num" /\ 0 <= d.v /\ d.v <= 100 * 30)

\* C20: for every detected datetime column and every row, <col>_is_recent is 1
\* exactly when the timestamp lies within the last 30 days before the stage's
\* now (0 <= days_from_today <= 30) and 0 otherwise, <col>_days_from_today
\* being the signed whole-day distance now - timestamp
C20_RecentWithinLast30Days ==
    /\ (StageReturned /\ last = "time") => RecentRight(before, df)
    /\ Len(returned) >= 4 => RecentRight(received[4], returned[4])

\* the number of values of a column that are not missing
NonMissing(c) == Cardinality({i \in DOMAIN c.vals : c.vals[i].k # "nan"})

\* for the checked columns of a with at most limit values, the z-score test
\* flagged no row of b, so that the combined flag is the IQR flag; and a row
\* without a value is never flagged by the z-score test
ZscoreSilent(a, b, limit) ==
    \E checked \in {cols_to_check(a)} :
        \A j \in DOMAIN checked :
            LET col == checked[j]
                z == Col(b, col \o <<"anomaly", "zscore">>)
                q == Col(b, col \o <<"anomaly", "iqr">>)
                f == Col(b, col \o <<"is", "anomaly">>)
            IN  /\ HasCol(b, col \o <<"anomaly", "zscore">>)
                /\ \A i \in Rows(a) : Col(a, col).vals[i].k = "nan" => z.vals[i] = Num(0)
                /\ NonMissing(Col(a, col)) <= limit
                       => /\ \A i \in Rows(a) : z.vals[i] = Num(0)
                          /\ f.vals = q.vals

\* C21 as stated: a column with at most 10 non-missing values has no row
\* flagged by the z-score test, so <col>_is_anomaly equals <col>_anomaly_iqr,
\* and a row with a missing source value gets the z-score flag 0
C21_ZscoreSilentUpToTen ==
    /\ (StageReturned /\ last = "anomaly") => ZscoreSilent(before, df, 10)
    /\ Len(returned) >= 5 => ZscoreSilent(received[5], returned[5], 10)

\* C21 amended: a column with at most 9 non-missing values has no row flagged
\* by the z-score test (the largest population z-score of n values is
\* sqrt(n - 1), below 3 for n <= 9), so <col>_is_anomaly equals
\* <col>_anomaly_iqr, and a row with a missing source value gets the z-score
\* flag 0
C21_ZscoreSilentUpToNine ==
    /\ (StageReturned /\ last = "anomaly") => ZscoreSilent(before, df, 9)
    /\ Len(returned) >= 5 => ZscoreSilent(received[5], returned[5], 9)

\* C21: a column of nine values with one far outlier and a row without a value
\* was checked: the outlier is flagged by the IQR test alone
C21_Witness ==
    /\ StageReturned /\ last = "anomaly"
    /\ HasCol(before, <<"income">>)
    /\ NonMissing(Col(before, <<"income">>)) = 9
    /\ Col(before, <<"income">>).vals[1] = NaN
    /\ Col(df, <<"income", "anomaly", "zscore">>).vals[1] = Num(0)
    /\ Col(df, <<"income", "anomaly", "zscore">>).vals[10] = Num(0)
    /\ Col(df, <<"income", "anomaly", "iqr">>).vals[10] = Num(100)
    /\ Col(df, <<"income", "is", "anomaly">>).vals[10] = Num(100)

----------------------------------------------------------------------------
(* Properties of run_pipeline *)

StageOrder == <<"derive", "encode", "bin", "time", "anomaly">>

\* C5: in a run of the driver the stages that have completed are the first
\* ones of derive, encode, bin, time, anomaly, in that order and once each;
\* a stage starts only when all before it have completed and receives the
\* table the previous one returned; the output file is written at most once,
\* only after all five have completed, and exactly once in a run that ends
\* with status zero
C5_FixedOrder ==
    /\ Len(executed) <= Len(StageOrder)
    /\ executed = SubSeq(StageOrder, 1, Len(executed))
    /\ Len(returned) = Len(executed)
    /\ Len(received) \in {Len(executed), Len(executed) + 1}
    /\ \A k \in DOMAIN received : k > 1 => received[k] = returned[k - 1]
    /\ written <= 1
    /\ written = 1 => executed = StageOrder
    /\ exit_status = 0 => written = 1

\* C5: a run has gone through all five stages on a table the stages added
\* columns to, has written the file and has ended
C5_Witness ==
    /\ pc = "exited" /\ exit_status = 0
    /\ executed = StageOrder /\ written = 1
    /\ \A k \in DOMAIN returned : Len(returned[k].cols) > Len(received[k].cols)

\* a stage of the run has been started and has not completed
StageFailed == Len(received) = Len(executed) + 1

\* how a run stands: status zero only with all five stages completed and the
\* file written, status one only with the error reported and no file written,
\* and a failed load or stage leads to the handler and never to status zero
C6_Outcome ==
    /\ pc = "except" => written = 0 /\ exit_status = -1
    /\ exit_status = 0 =>
           /\ pc = "exited" /\ executed = StageOrder /\ written = 1
           /\ ~StageFailed /\ ~reported
    /\ exit_status = 1 => pc = "exited" /\ reported /\ written = 0
    /\ StageFailed => pc \in {"except", "exited"} /\ exit_status # 0

\* what the handler does: it reports and ends the run with status one; no
\* stage runs and no file is written from there
C6_Handler ==
    pc = "except" =>
        /\ pc' = "exited" /\ reported' /\ exit_status' = 1
        /\ executed' = executed /\ received' = received /\ written' = written

\* C6: when the load or a stage of a run fails, no later stage runs, the file
\* is never written, the error is reported and the run ends with a non-zero
\* status; a run ends with status zero only after all five stages completed
\* and the file was written
C6_FailureStops == []C6_Outcome /\ [][C6_Handler]_vars

\* C6: the third stage of a run has raised after two completed, and the run
\* has ended with the error reported, status one and no file
C6_Witness ==
    /\ pc = "exited" /\ exit_status = 1 /\ reported /\ written = 0
    /\ executed = <<"derive", "encode">> /\ StageFailed

====
